---- MODULE Spec2Model ----
(***************************************************************************)
(* Model of the BrightBuzz article pipeline: the article store             *)
(* (server/databaseStorage.ts), the ingestion orchestrator and the basic   *)
(* curation (server/services/newsService.ts) and the podcast reader        *)
(* (server/services/podcastService.ts).                                    *)
(*                                                                         *)
(* Time is counted in minutes: FETCH_INTERVAL (15 * 60 * 1000 ms) is 15,   *)
(* the 30 day curation window is 43200 and the 24 hour boost is 1440.      *)
(* Scores are counted in tenths (sentiment 0.7 is 7, a boost of 0.1 is 1). *)
(***************************************************************************)
EXTENDS Integers, Sequences, FiniteSets, TLC

(***************************************************************************)
(* Bounds of the model.                                                    *)
(***************************************************************************)
MaxBatch == 2        \* longest RSS batch drawn from the catalogue
MaxElapsed == 16     \* minutes the clock may advance past StartTime
MaxBulkId == 2       \* ids that setCurationFlagsBulk may be called with

(***************************************************************************)
(* Program constants.                                                      *)
(***************************************************************************)
FETCH_INTERVAL == 15
CurationWindow == 43200
RecentWindow == 1440
CuratedLimit == 15
TopFiveLimit == 5
SupplementThreshold == 10
DefaultSentiment == 7
StartTime == CurationWindow + 6800   \* Date.now() at process start

(***************************************************************************)
(* Strings.  toLowerCase and substring tests are given on the alphabet     *)
(* the model draws its inputs from.                                        *)
(***************************************************************************)
Lower(s) ==
  CASE s = "A.com" -> "a.com"
    [] s = "X" -> "x"
    [] s = "Recession" -> "recession"
    [] OTHER -> s

\* <<t, w>>: t occurs inside the longer word w (String.prototype.includes)
SubstrPairs == {<<"ai", "paid">>, <<"cess", "recession">>}

IsSubstr(t, w) == t = w \/ <<t, w>> \in SubstrPairs

\* text is the set of lowercase words of `${title} ${summary}`
Includes(text, term) == \E w \in text : IsSubstr(term, w)

(***************************************************************************)
(* URLs.  A URL is [scheme, host, path, query]: scheme "" is a string that *)
(* `new URL` rejects, path is the list of path segments (a trailing "" is  *)
(* a trailing slash), query is the list of <<name, value>> pairs.          *)
(***************************************************************************)
trackingParams ==
  {"utm_source", "utm_medium", "utm_campaign", "utm_content", "utm_term",
   "ref", "fbclid", "gclid"}

\* code unit order of the parameter names the model uses
NameRank(n) ==
  CASE n = "a" -> 1
    [] n = "b" -> 2
    [] n = "ref" -> 3
    [] n = "utm_source" -> 4
    [] OTHER -> 5

\* URLSearchParams.sort(): stable, by name only
RECURSIVE InsertByName(_, _)
InsertByName(p, s) ==
  IF s = <<>> THEN <<p>>
  ELSE IF NameRank(p[1]) < NameRank(Head(s)[1]) THEN <<p>> \o s
  ELSE <<Head(s)>> \o InsertByName(p, Tail(s))

RECURSIVE SortParams(_)
SortParams(q) ==
  IF q = <<>> THEN <<>>
  ELSE InsertByName(q[Len(q)], SortParams(SubSeq(q, 1, Len(q) - 1)))

IsTracking(p) == p[1] \in trackingParams

\* pathname.replace(/\/$/, ""): drops one trailing slash
StripSlash(path) ==
  IF Len(path) > 0 /\ path[Len(path)] = ""
  THEN SubSeq(path, 1, Len(path) - 1)
  ELSE path

\* assigning "" to pathname of an http URL gives "/"
SetPathname(path) == IF path = <<>> THEN <<"">> ELSE path

LowerPath(path) == [i \in 1..Len(path) |-> Lower(path[i])]

LowerQuery(q) == [i \in 1..Len(q) |-> <<Lower(q[i][1]), Lower(q[i][2])>>]

\* normalizeUrl without the removal of the trailing slash
normalizeUrl_KeepSlash(u) ==
  [scheme |-> u.scheme,
   host |-> Lower(u.host),
   path |-> u.path,
   query |-> SortParams(SelectSeq(u.query, LAMBDA p : ~IsTracking(p)))]

normalizeUrl(u) ==
  IF u.scheme # ""
  THEN [scheme |-> u.scheme,
        host |-> Lower(u.host),
        path |-> SetPathname(StripSlash(u.path)),
        query |-> SortParams(SelectSeq(u.query, LAMBDA p : ~IsTracking(p)))]
  ELSE \* catch branch: url.toLowerCase().replace(/\/$/, "")
       [scheme |-> "",
        host |-> Lower(u.host),
        path |-> IF u.query = <<>> THEN StripSlash(LowerPath(u.path))
                 ELSE LowerPath(u.path),
        query |-> LowerQuery(u.query)]

Url(host, path, query) ==
  [scheme |-> "http", host |-> host, path |-> path, query |-> query]

(***************************************************************************)
(* The catalogue of feed items the runs draw their batches from.           *)
(***************************************************************************)
Items ==
  <<[url |-> Url("a.com", <<"x">>, <<<<"utm_source", "y">>>>),
     text |-> {"startup", "growth"}, sentiment |-> 9, category |-> "Technology",
     keywords |-> {"startup"}, publishedAt |-> StartTime - 10, complete |-> TRUE],
    [url |-> Url("a.com", <<"x", "">>, <<>>),
     text |-> {"paid", "news"}, sentiment |-> 0, category |-> "General",
     keywords |-> {"recession"}, publishedAt |-> StartTime - 2000, complete |-> TRUE],
    [url |-> Url("A.com", <<"z">>, <<>>),
     text |-> {"recession", "market"}, sentiment |-> 5, category |-> "Business",
     keywords |-> {"market"}, publishedAt |-> StartTime - CurationWindow + 8,
     complete |-> TRUE],
    [url |-> Url("a.com", <<"w">>, <<>>),
     text |-> {}, sentiment |-> 7, category |-> "General",
     keywords |-> {}, publishedAt |-> StartTime - 5, complete |-> FALSE]>>

ItemIds == 1..Len(Items)

(***************************************************************************)
(* State.                                                                  *)
(*   articles      the articles table, in insertion order; the id of a row *)
(*                 is its position (rows are never deleted)                *)
(*   keywords      the keywords table                                      *)
(*   lastFetchTime NewsService.lastFetchTime                               *)
(*   now           Date.now()                                              *)
(*   run           the fetchLatestNews invocations in flight, one per slot *)
(*   reader        the generateDailyPodcast invocation in flight           *)
(*   lastOp        the last operation that completed, with its result      *)
(*   hist          what an observer recorded: the flags when the current   *)
(*                 run started, whether the reads were taken inside it     *)
(*   req           the call of the filtering service in flight, with its   *)
(*                 arguments and what it reads from the store              *)
(*   userArticleLikes, userSavedArticles                                   *)
(*                 the tables of likes and saves, in insertion order       *)
(*   podcasts      the podcasts table; the id of a row is its position     *)
(*   inflight      the storage and podcast calls in flight, one per slot   *)
(***************************************************************************)
VARIABLES articles, keywords, lastFetchTime, now, run, reader, lastOp, hist,
          req, userArticleLikes, userSavedArticles, podcasts, inflight

vars == <<articles, keywords, lastFetchTime, now, run, reader, lastOp, hist,
          req, userArticleLikes, userSavedArticles, podcasts, inflight>>

storeVars == <<userArticleLikes, userSavedArticles, podcasts, inflight>>

Callers == {1, 2}

IdleCall == [op |-> "none", pc |-> "idle", id |-> 0, userId |-> "none",
             n |-> 0, script |-> "none", audio |-> "none"]

NoCalls ==
  /\ userArticleLikes = <<>>
  /\ userSavedArticles = <<>>
  /\ podcasts = <<>>
  /\ inflight = [c \in Callers |-> IdleCall]

Runs == {1, 2}

IdleRun ==
  [pc |-> "idle", now0 |-> 0, batch |-> <<>>, k |-> 0,
   ins |-> {}, cand |-> <<>>, sorted |-> <<>>, failed |-> FALSE]

IdleReader == [pc |-> "idle", curated |-> {}]

NoReq == [op |-> "none"]

NoHist ==
  [on |-> FALSE, beforeCurated |-> {}, beforeTop |-> {},
   cIn |-> FALSE, tIn |-> FALSE,
   obsCurated |-> {}, obsTop |-> {}]

CuratedSet(table) == {i \in 1..Len(table) : table[i].isCurated}

TopFiveSet(table) == {i \in 1..Len(table) : table[i].isTopFive}

Init ==
  /\ articles = <<>>
  /\ keywords = {}
  /\ lastFetchTime = 0
  /\ now = StartTime
  /\ run = [p \in Runs |-> IdleRun]
  /\ reader = IdleReader
  /\ lastOp = [op |-> "none", p |-> 0, a |-> <<>>, r |-> <<>>]
  /\ hist = NoHist
  /\ req = NoReq
  /\ NoCalls

(***************************************************************************)
(* The articles table.  Its unique index on url is the conflict target of  *)
(* createArticle.                                                          *)
(***************************************************************************)
UrlIsUnique == TRUE

RowsWithUrl(table, key) == {i \in 1..Len(table) : table[i].url = key}

NewRow(cand, key) ==
  [item |-> cand.item, url |-> key, sentiment |-> cand.sentiment,
   keywords |-> cand.keywords,
   isCurated |-> cand.isCurated, isTopFive |-> cand.isTopFive, views |-> 0,
   likes |-> 0]

\* the insert without its onConflictDoNothing clause: a duplicate url is
\* rejected by the unique index
createArticle_NoConflictClause(table, cand) ==
  LET key == normalizeUrl(cand.url)
      hit == RowsWithUrl(table, key)
  IN IF UrlIsUnique /\ hit # {}
     THEN [table |-> table, row |-> NewRow(cand, key), id |-> 0,
           inserted |-> FALSE, error |-> TRUE]
     ELSE [table |-> Append(table, NewRow(cand, key)),
           row |-> NewRow(cand, key), id |-> Len(table) + 1,
           inserted |-> TRUE, error |-> FALSE]

\* the insert with onConflictDoUpdate in place of onConflictDoNothing
createArticle_Upsert(table, cand) ==
  LET key == normalizeUrl(cand.url)
      hit == RowsWithUrl(table, key)
      id == CHOOSE i \in hit : TRUE
  IN IF UrlIsUnique /\ hit # {}
     THEN [table |-> [table EXCEPT ![id] = NewRow(cand, key)],
           row |-> NewRow(cand, key), id |-> id,
           inserted |-> FALSE, error |-> FALSE]
     ELSE [table |-> Append(table, NewRow(cand, key)),
           row |-> NewRow(cand, key), id |-> Len(table) + 1,
           inserted |-> TRUE, error |-> FALSE]

\* insert ... onConflictDoNothing({target: articles.url}).returning(),
\* then the select of the existing row when nothing was inserted
createArticle(table, cand) ==
  LET key == normalizeUrl(cand.url)
      hit == RowsWithUrl(table, key)
      id == CHOOSE i \in hit : TRUE
  IN IF UrlIsUnique /\ hit # {}
     THEN [table |-> table, row |-> table[id], id |-> id,
           inserted |-> FALSE, error |-> FALSE]
     ELSE [table |-> Append(table, NewRow(cand, key)),
           row |-> NewRow(cand, key), id |-> Len(table) + 1,
           inserted |-> TRUE, error |-> FALSE]

\* update articles set ... where id = ...
updateArticle(table, id, field, value) ==
  IF id \in 1..Len(table)
  THEN [table EXCEPT ![id] = [@ EXCEPT ![field] = value]]
  ELSE table

\* the transaction of setCurationFlagsBulk: reset, then top five, then curated
BulkTransaction(table, topFiveIds, curatedIds) ==
  LET reset == [i \in 1..Len(table) |->
                  IF table[i].isCurated \/ table[i].isTopFive
                  THEN [table[i] EXCEPT !.isCurated = FALSE, !.isTopFive = FALSE]
                  ELSE table[i]]
      top == [i \in 1..Len(table) |->
                IF i \in topFiveIds
                THEN [reset[i] EXCEPT !.isTopFive = TRUE, !.isCurated = FALSE]
                ELSE reset[i]]
  IN [i \in 1..Len(table) |->
        IF i \in curatedIds
        THEN [top[i] EXCEPT !.isCurated = TRUE, !.isTopFive = FALSE]
        ELSE top[i]]

\* setCurationFlagsBulk without the overlap check
setCurationFlagsBulk_NoGuard(table, topFiveIds, curatedIds) ==
  [table |-> BulkTransaction(table, topFiveIds, curatedIds), result |-> "ok"]

setCurationFlagsBulk(table, topFiveIds, curatedIds) ==
  IF topFiveIds \cap curatedIds # {}
  THEN [table |-> table, result |-> "error"]
  ELSE [table |-> BulkTransaction(table, topFiveIds, curatedIds),
        result |-> "ok"]

(***************************************************************************)
(* Basic curation (NewsService.runBasicCuration).                          *)
(***************************************************************************)
positiveTerms ==
  {"growth", "innovation", "success", "breakthrough", "launch", "funding",
   "profit", "advance", "development", "opportunity", "market", "technology",
   "ai", "startup"}

blockedTerms(kws) == {Lower(k.keyword) : k \in {x \in kws : x.type = "blocked"}}

\* the date filter: publishedDate >= thirtyDaysAgo
IsRecent(row, t) == Items[row.item].publishedAt >= t - CurationWindow

\* the keyword filter looks at title and summary only
PassesBlocked(row, kws) ==
  ~\E term \in blockedTerms(kws) : Includes(Items[row.item].text, term)

Score(row, t) ==
  (IF row.sentiment = 0 THEN DefaultSentiment ELSE row.sentiment)
  + Cardinality({term \in positiveTerms : Includes(Items[row.item].text, term)})
  + (IF Items[row.item].category \in {"Technology", "Business"} THEN 2 ELSE 0)
  + (IF t - Items[row.item].publishedAt < RecentWindow THEN 1 ELSE 0)

\* Array.prototype.sort((a, b) => b.score - a.score): stable, descending
RECURSIVE InsertByScore(_, _, _, _)
InsertByScore(id, s, table, t) ==
  IF s = <<>> THEN <<id>>
  ELSE IF Score(table[id], t) > Score(table[Head(s)], t) THEN <<id>> \o s
  ELSE <<Head(s)>> \o InsertByScore(id, Tail(s), table, t)

RECURSIVE SortByScore(_, _, _)
SortByScore(ids, table, t) ==
  IF ids = <<>> THEN <<>>
  ELSE InsertByScore(ids[Len(ids)],
                     SortByScore(SubSeq(ids, 1, Len(ids) - 1), table, t),
                     table, t)

Min(a, b) == IF a < b THEN a ELSE b

Max(a, b) == IF a > b THEN a ELSE b

curatedCount(sorted) == Min(CuratedLimit, Len(sorted))

topFiveCount(sorted) == Min(TopFiveLimit, Len(sorted))

\* the ids the two marking loops of a run go over
CuratedIds(sorted) == {sorted[i] : i \in 1..curatedCount(sorted)}

TopFiveIds(sorted) == {sorted[i] : i \in 1..topFiveCount(sorted)}

(***************************************************************************)
(* NewsService.fetchLatestNews.  A run is cut at its awaits: the RSS fetch *)
(* (taken together with the call, its result does not depend on the        *)
(* state), every createArticle, the NewsAPI fetch, getArticles,            *)
(* getKeywords and every updateArticle.  ok = FALSE is the awaited call    *)
(* rejecting.                                                              *)
(***************************************************************************)
ByDateDesc(b) ==
  \A i \in 1..Len(b) - 1 : Items[b[i]].publishedAt >= Items[b[i + 1]].publishedAt

\* what RSSService.getLatestArticles can return: newest first
Batches ==
  {b \in UNION {[1..n -> ItemIds] : n \in 0..MaxBatch} : ByDateDesc(b)}
  \cup {[i \in 1..SupplementThreshold |-> 1]}

\* what the NewsAPI queries can return
SupplementBatches == {<<>>, <<2>>}

commonWords ==
  {"the", "a", "an", "and", "or", "but", "in", "on", "at", "to", "for", "of",
   "with", "by", "is", "are", "was", "were", "be", "been", "have", "has",
   "had", "do", "does", "did", "will", "would", "could", "should", "may",
   "might", "must", "can", "this", "that", "these", "those"}

\* extractBasicKeywords: the words longer than 3 characters that are not
\* common (every word of the catalogue is longer than 3, no text has 10)
extractBasicKeywords(text) == text \ commonWords

\* processRSSArticlesWithFallback: drops incomplete items, sentiment 0.7,
\* keywords from title and summary
processRSSArticlesWithFallback(b) ==
  LET kept == SelectSeq(b, LAMBDA i : Items[i].complete)
  IN [j \in 1..Len(kept) |->
        [item |-> kept[j], url |-> Items[kept[j]].url,
         sentiment |-> DefaultSentiment,
         keywords |-> extractBasicKeywords(Items[kept[j]].text),
         isCurated |-> FALSE, isTopFive |-> FALSE]]

FailedRating == 5     \* the rating 0.5 that analyzeSentiment returns from its catch

\* the requests to OpenAI that are answered; the others are rejected
AiOutcomes == [sentiment : BOOLEAN, keywords : BOOLEAN]

Answered == [sentiment |-> TRUE, keywords |-> TRUE]

\* aiService.analyzeSentiment for item i: the clamped rating of the answer,
\* or the result of its own catch; it never throws
analyzeSentiment(i, ai) ==
  IF ai.sentiment
  THEN [threw |-> FALSE, rating |-> Max(0, Min(10, Items[i].sentiment))]
  ELSE [threw |-> FALSE, rating |-> FailedRating]

\* aiService.extractKeywords for item i: the keywords of the answer, or the
\* empty list of its own catch; it never throws
extractKeywords(i, ai) ==
  IF ai.keywords
  THEN [threw |-> FALSE, keywords |-> Items[i].keywords]
  ELSE [threw |-> FALSE, keywords |-> {}]

\* processNewsAPIArticles: drops incomplete items; sentiment and keywords are
\* what the AI calls return, or the fallback values when a call throws
processNewsAPIArticles(b, ai) ==
  LET kept == SelectSeq(b, LAMBDA i : Items[i].complete)
  IN [j \in 1..Len(kept) |->
        [item |-> kept[j], url |-> Items[kept[j]].url,
         sentiment |-> IF analyzeSentiment(kept[j], ai).threw
                       THEN DefaultSentiment
                       ELSE analyzeSentiment(kept[j], ai).rating,
         keywords |-> IF extractKeywords(kept[j], ai).threw
                      THEN extractBasicKeywords(Items[kept[j]].text)
                      ELSE extractKeywords(kept[j], ai).keywords,
         isCurated |-> FALSE, isTopFive |-> FALSE]]

Op(name, p, a, r) == [op |-> name, p |-> p, a |-> a, r |-> r]

\* the end of a run: the catch of fetchLatestNews (thrown) or line 57
EndRun(p, thrown, failed) ==
  /\ run' = [run EXCEPT ![p] = IdleRun]
  /\ lastFetchTime' = IF thrown THEN lastFetchTime ELSE run[p].now0
  /\ lastOp' = Op("runEnd", p,
                  [failed |-> failed,
                   top |-> TopFiveIds(run[p].sorted),
                   cur |-> CuratedIds(run[p].sorted)],
                  IF thrown THEN "thrown" ELSE "returned")
  /\ hist' = NoHist

\* after the RSS batch is stored (line 49)
AfterStore(n) == IF n < SupplementThreshold THEN "supplement" ELSE "curate"

TooSoon_Inclusive(forceRefresh, t, last) ==
  ~forceRefresh /\ t - last <= FETCH_INTERVAL

\* the rate limit at the head of fetchLatestNews
TooSoon(forceRefresh, t, last) ==
  ~forceRefresh /\ t - last < FETCH_INTERVAL

\* observed: an observer records the flags the run starts from
Call(p, forceRefresh, b, feedOk, observed) ==
  /\ run[p].pc = "idle"
  /\ IF TooSoon(forceRefresh, now, lastFetchTime)
     THEN /\ lastOp' = Op("fetchLatestNews", p, forceRefresh, "noop")
          /\ UNCHANGED <<articles, keywords, lastFetchTime, now, run, reader, hist>>
     ELSE LET processed == processRSSArticlesWithFallback(b)
          IN /\ run' = [run EXCEPT ![p] =
                          [IdleRun EXCEPT
                             !.pc = IF processed = <<>> THEN AfterStore(0)
                                    ELSE "store",
                             !.now0 = now,
                             !.batch = processed,
                             !.k = IF processed = <<>> THEN 0 ELSE 1,
                             !.failed = ~feedOk]]
             /\ lastOp' = Op("fetchLatestNews", p, forceRefresh, "started")
             /\ hist' = IF observed
                        THEN [NoHist EXCEPT !.on = TRUE,
                                !.beforeCurated = CuratedSet(articles),
                                !.beforeTop = TopFiveSet(articles)]
                        ELSE NoHist
             /\ UNCHANGED <<articles, keywords, lastFetchTime, now, reader>>
  /\ UNCHANGED <<req, storeVars>>

\* the loop without its await: the run goes on after the first createArticle
Stored_NoAwait(r, res, nextPc) ==
  [r EXCEPT !.pc = nextPc,
            !.ins = IF res.inserted THEN @ \cup {res.id} ELSE @]

\* what a createArticle of the run leaves in its locals
Stored(r, res, nextPc) ==
  IF r.k = Len(r.batch)
  THEN [r EXCEPT !.pc = nextPc, !.batch = <<>>, !.k = 0,
                 !.ins = IF res.inserted THEN @ \cup {res.id} ELSE @]
  ELSE [r EXCEPT !.k = @ + 1,
                 !.ins = IF res.inserted THEN @ \cup {res.id} ELSE @]

Store(p, ok) ==
  /\ run[p].pc = "store"
  /\ LET c == run[p].batch[run[p].k]
         res == createArticle(articles, c)
     IN IF ~ok \/ res.error
        THEN /\ EndRun(p, TRUE, TRUE)
             /\ UNCHANGED articles
        ELSE /\ articles' = res.table
             /\ run' = [run EXCEPT ![p] =
                          Stored(@, res, AfterStore(Len(run[p].batch)))]
             /\ lastOp' = Op("createArticle", p, c,
                             [row |-> res.row, id |-> res.id,
                              inserted |-> res.inserted])
             /\ UNCHANGED <<lastFetchTime, hist>>
  /\ UNCHANGED <<keywords, now, reader>>
  /\ UNCHANGED <<req, storeVars>>

\* fetchFromNewsAPI up to its first createArticle; its catch swallows a failure
Supplement(p, ok, b) ==
  /\ run[p].pc = "supplement"
  /\ LET processed == IF ok THEN processNewsAPIArticles(b, Answered) ELSE <<>>
     IN run' = [run EXCEPT ![p] =
                  [@ EXCEPT !.pc = IF processed = <<>> THEN "curate"
                                   ELSE "supStore",
                            !.batch = processed,
                            !.k = IF processed = <<>> THEN 0 ELSE 1,
                            !.failed = @ \/ ~ok]]
  /\ lastOp' = Op("fetchFromNewsAPI", p, <<>>, <<>>)
  /\ UNCHANGED <<articles, keywords, lastFetchTime, now, reader, hist>>
  /\ UNCHANGED <<req, storeVars>>

SupStore(p) ==
  /\ run[p].pc = "supStore"
  /\ LET c == run[p].batch[run[p].k]
         res == createArticle(articles, c)
     IN IF res.error
        THEN /\ run' = [run EXCEPT ![p] =
                          [@ EXCEPT !.pc = "curate", !.batch = <<>>, !.k = 0,
                                    !.failed = TRUE]]
             /\ lastOp' = Op("fetchFromNewsAPI", p, <<>>, <<>>)
             /\ UNCHANGED articles
        ELSE /\ articles' = res.table
             /\ run' = [run EXCEPT ![p] = Stored(@, res, "curate")]
             /\ lastOp' = Op("createArticle", p, c,
                             [row |-> res.row, id |-> res.id,
                              inserted |-> res.inserted])
  /\ UNCHANGED <<keywords, lastFetchTime, now, reader, hist>>
  /\ UNCHANGED <<req, storeVars>>

\* runCurationWithFallback: getArticles, then the date filter
CurateRead(p, ok) ==
  /\ run[p].pc = "curate"
  /\ IF ~ok
     THEN EndRun(p, FALSE, TRUE)
     ELSE /\ run' = [run EXCEPT ![p] =
                       [@ EXCEPT !.pc = "keywords",
                                 !.cand = SelectSeq([i \in 1..Len(articles) |-> i],
                                            LAMBDA i : IsRecent(articles[i], now))]]
          /\ lastOp' = Op("getArticles", p, <<>>, <<>>)
          /\ UNCHANGED <<lastFetchTime, hist>>
  /\ UNCHANGED <<articles, keywords, now, reader>>
  /\ UNCHANGED <<req, storeVars>>

\* getKeywords, then the keyword filter, the scoring and the sort
CurateKeywords(p, ok) ==
  /\ run[p].pc = "keywords"
  /\ LET filtered == SelectSeq(run[p].cand,
                               LAMBDA i : PassesBlocked(articles[i], keywords))
         sorted == SortByScore(filtered, articles, now)
     IN IF ~ok \/ sorted = <<>>
        THEN EndRun(p, FALSE, run[p].failed \/ ~ok)
        ELSE /\ run' = [run EXCEPT ![p] =
                          [@ EXCEPT !.pc = "markCurated", !.cand = <<>>,
                                    !.sorted = sorted, !.k = 1]]
             /\ lastOp' = Op("getKeywords", p, <<>>, <<>>)
             /\ UNCHANGED <<lastFetchTime, hist>>
  /\ UNCHANGED <<articles, keywords, now, reader>>
  /\ UNCHANGED <<req, storeVars>>

MarkCurated(p) ==
  /\ run[p].pc = "markCurated"
  /\ articles' = updateArticle(articles, run[p].sorted[run[p].k],
                               "isCurated", TRUE)
  /\ run' = [run EXCEPT ![p] =
               IF run[p].k = curatedCount(run[p].sorted)
               THEN [@ EXCEPT !.pc = "markTopFive", !.k = 1]
               ELSE [@ EXCEPT !.k = @ + 1]]
  /\ lastOp' = Op("updateArticle", p, <<>>, <<>>)
  /\ UNCHANGED <<keywords, lastFetchTime, now, reader, hist>>
  /\ UNCHANGED <<req, storeVars>>

MarkTopFive(p) ==
  /\ run[p].pc = "markTopFive"
  /\ articles' = updateArticle(articles, run[p].sorted[run[p].k],
                               "isTopFive", TRUE)
  /\ IF run[p].k = topFiveCount(run[p].sorted)
     THEN EndRun(p, FALSE, run[p].failed)
     ELSE /\ run' = [run EXCEPT ![p] = [@ EXCEPT !.k = @ + 1]]
          /\ lastOp' = Op("updateArticle", p, <<>>, <<>>)
          /\ UNCHANGED <<lastFetchTime, hist>>
  /\ UNCHANGED <<keywords, now, reader>>
  /\ UNCHANGED <<req, storeVars>>

(***************************************************************************)
(* The other writers and the readers.                                      *)
(***************************************************************************)
TickSteps == {14, 15}

Tick(d) ==
  /\ now + d <= StartTime + MaxElapsed
  /\ now' = now + d
  /\ lastOp' = Op("tick", 0, <<>>, <<>>)
  /\ UNCHANGED <<articles, keywords, lastFetchTime, run, reader, hist>>
  /\ UNCHANGED <<req, storeVars>>

KeywordInputs == {[keyword |-> "Recession", type |-> "blocked"]}

\* POST /api/keywords: keywords.keyword is unique, a duplicate is rejected
CreateKeyword(kw) ==
  /\ keywords' = IF \E x \in keywords : x.keyword = kw.keyword
                 THEN keywords ELSE keywords \cup {kw}
  /\ lastOp' = Op("createKeyword", 0, <<>>, <<>>)
  /\ UNCHANGED <<articles, lastFetchTime, now, run, reader, hist>>
  /\ UNCHANGED <<req, storeVars>>

\* DELETE /api/keywords/:id
DeleteKeyword(kw) ==
  /\ keywords' = keywords \ {kw}
  /\ lastOp' = Op("deleteKeyword", 0, <<>>, <<>>)
  /\ UNCHANGED <<articles, lastFetchTime, now, run, reader, hist>>
  /\ UNCHANGED <<req, storeVars>>

BulkIds == SUBSET (1..MaxBulkId)

SetCurationFlagsBulk(topFiveIds, curatedIds) ==
  /\ LET res == setCurationFlagsBulk(articles, topFiveIds, curatedIds)
     IN /\ articles' = res.table
        /\ lastOp' = Op("setCurationFlagsBulk", 0,
                        topFiveIds \cap curatedIds, res.result)
  /\ UNCHANGED <<keywords, lastFetchTime, now, run, reader, hist>>
  /\ UNCHANGED <<req, storeVars>>

getCuratedArticles(table) == CuratedSet(table)

\* where is_top_five order by views desc limit 5
getTopFiveArticles(table) ==
  {S \in SUBSET TopFiveSet(table) :
     /\ Cardinality(S) = Min(TopFiveLimit, Cardinality(TopFiveSet(table)))
     /\ \A a \in S, b \in TopFiveSet(table) \ S : table[a].views >= table[b].views}

\* generateDailyPodcast, first await
ReadCurated ==
  /\ reader.pc = "idle"
  /\ reader' = [pc |-> "gotCurated", curated |-> getCuratedArticles(articles)]
  /\ hist' = IF hist.on
             THEN [hist EXCEPT !.cIn = TRUE,
                               !.obsCurated = getCuratedArticles(articles)]
             ELSE hist
  /\ lastOp' = Op("getCuratedArticles", 0, <<>>, <<>>)
  /\ UNCHANGED <<articles, keywords, lastFetchTime, now, run>>
  /\ UNCHANGED <<req, storeVars>>

\* generateDailyPodcast, second await and the merge by id
ReadTopFive ==
  /\ reader.pc = "gotCurated"
  /\ \E S \in getTopFiveArticles(articles) :
       /\ hist' = IF hist.on
                  THEN [hist EXCEPT !.tIn = TRUE, !.obsTop = S]
                  ELSE hist
       /\ lastOp' = Op("generateDailyPodcast", 0, <<>>,
                       IF reader.curated \cup S = {} THEN "error" ELSE "ok")
  /\ reader' = IdleReader
  /\ UNCHANGED <<articles, keywords, lastFetchTime, now, run>>
  /\ UNCHANGED <<req, storeVars>>

(***************************************************************************)
(* Specifications.                                                         *)
(***************************************************************************)
\* Oks: the outcomes of the awaited collaborator calls
RunStep(p, observed, Oks) ==
  \/ \E f \in BOOLEAN, b \in Batches, feedOk \in Oks :
       Call(p, f, b, feedOk, observed)
  \/ \E ok \in Oks : Store(p, ok)
  \/ \E ok \in Oks, b \in SupplementBatches : Supplement(p, ok, b)
  \/ SupStore(p)
  \/ \E ok \in Oks : CurateRead(p, ok)
  \/ \E ok \in Oks : CurateKeywords(p, ok)
  \/ MarkCurated(p)
  \/ MarkTopFive(p)

\* one run at a time, the clock and the keyword routes
Next ==
  \/ RunStep(1, FALSE, BOOLEAN)
  \/ \E d \in TickSteps : Tick(d)
  \/ \E kw \in KeywordInputs : CreateKeyword(kw)
  \/ \E kw \in KeywordInputs : DeleteKeyword(kw)

Spec == Init /\ [][Next]_vars

\* a run and the bulk flag update
NextBulk ==
  \/ RunStep(1, FALSE, {TRUE})
  \/ \E t \in BulkIds, c \in BulkIds : SetCurationFlagsBulk(t, c)

SpecBulk == Init /\ [][NextBulk]_vars

\* overlapping runs
NextOverlap == \E p \in Runs : RunStep(p, FALSE, {TRUE})

SpecOverlap == Init /\ [][NextOverlap]_vars

\* overlapping runs and the clock
NextRace ==
  \/ \E p \in Runs : RunStep(p, FALSE, {TRUE})
  \/ Tick(FETCH_INTERVAL)

SpecRace == Init /\ [][NextRace]_vars

\* a run with a concurrent reader
NextReader ==
  \/ RunStep(1, TRUE, {TRUE})
  \/ ReadCurated
  \/ ReadTopFive

SpecReader == Init /\ [][NextReader]_vars

(***************************************************************************)
(* createArticle on arbitrary URLs: a run that is about to store a batch   *)
(* of two candidates whose URLs are drawn from a bounded universe.         *)
(***************************************************************************)
MaxQuery == 2        \* longest query string of the URL universe

UrlHosts == {"a.com", "A.com"}

UrlPaths == {<<"">>, <<"x">>, <<"x", "">>, <<"x", "", "">>}

UrlParams == {<<"utm_source", "y">>, <<"a", "1">>, <<"a", "2">>, <<"b", "2">>}

UrlQueries == UNION {[1..n -> UrlParams] : n \in 0..MaxQuery}

UrlUniverse == {Url(h, pa, q) : h \in UrlHosts, pa \in UrlPaths, q \in UrlQueries}

Candidate(i, u) ==
  [item |-> i, url |-> u, sentiment |-> DefaultSentiment,
   keywords |-> extractBasicKeywords(Items[i].text),
   isCurated |-> FALSE, isTopFive |-> FALSE]

InitUrl ==
  /\ articles = <<>>
  /\ keywords = {}
  /\ lastFetchTime = 0
  /\ now = StartTime
  /\ \E u \in UrlUniverse, v \in UrlUniverse :
       run = [p \in Runs |->
                IF p = 1
                THEN [IdleRun EXCEPT !.pc = "store", !.now0 = StartTime,
                                     !.batch = <<Candidate(1, u), Candidate(2, v)>>,
                                     !.k = 1]
                ELSE IdleRun]
  /\ reader = IdleReader
  /\ lastOp = Op("fetchLatestNews", 1, TRUE, "started")
  /\ hist = NoHist
  /\ req = NoReq
  /\ NoCalls

NextUrl == \E ok \in {TRUE} : Store(1, ok)

SpecUrl == InitUrl /\ [][NextUrl]_vars

(***************************************************************************)
(* The filtering service (services/filteringService.ts).  Here a text is   *)
(* the sequence of its characters.                                         *)
(***************************************************************************)
MaxText == 3         \* longest text given to applyReplacementPatterns
MaxPatterns == 2     \* longest list of replacement patterns

\* toLowerCase on the characters the model uses
LowerChar(c) ==
  CASE c = "A" -> "a"
    [] c = "B" -> "b"
    [] OTHER -> c

ToLower(t) == [i \in 1..Len(t) |-> LowerChar(t[i])]

\* the regular expression of a pattern, the escaped findText, matches at i
MatchesAt(text, i, find, caseSensitive) ==
  /\ i + Len(find) - 1 <= Len(text)
  /\ \A k \in 1..Len(find) :
       IF caseSensitive THEN text[i + k - 1] = find[k]
       ELSE LowerChar(text[i + k - 1]) = LowerChar(find[k])

\* the replacement string of String.prototype.replace: $$ is a dollar sign
\* and $& is the match (the other patterns need a character the model's
\* alphabet does not hold); the regular expression has no groups
RECURSIVE Expand(_, _)
Expand(repl, matched) ==
  IF repl = <<>> THEN <<>>
  ELSE IF repl[1] = "$" /\ Len(repl) >= 2 /\ repl[2] \in {"$", "&"}
  THEN (IF repl[2] = "$" THEN <<"$">> ELSE matched)
       \o Expand(SubSeq(repl, 3, Len(repl)), matched)
  ELSE <<repl[1]>> \o Expand(Tail(repl), matched)

\* text.replace(regex, replaceText) with the g flag, from position i on
RECURSIVE ReplaceFrom(_, _, _, _, _)
ReplaceFrom(text, i, find, repl, caseSensitive) ==
  IF MatchesAt(text, i, find, caseSensitive)
  THEN LET out == Expand(repl, SubSeq(text, i, i + Len(find) - 1))
       IN IF find # <<>>
          THEN out \o ReplaceFrom(text, i + Len(find), find, repl, caseSensitive)
          ELSE IF i > Len(text) THEN out
          ELSE out \o <<text[i]>>
                   \o ReplaceFrom(text, i + 1, find, repl, caseSensitive)
  ELSE IF i > Len(text) THEN <<>>
  ELSE <<text[i]>> \o ReplaceFrom(text, i + 1, find, repl, caseSensitive)

RECURSIVE applyReplacementPatterns(_, _)
applyReplacementPatterns(text, patterns) ==
  IF patterns = <<>> THEN text
  ELSE applyReplacementPatterns(
         ReplaceFrom(text, 1, Head(patterns).findText,
                     Head(patterns).replaceText, Head(patterns).caseSensitive),
         Tail(patterns))

\* the call of a function of the service returns
Return(name, result) ==
  /\ req.op = name
  /\ lastOp' = Op(name, 0, req, result)
  /\ req' = NoReq
  /\ UNCHANGED <<articles, keywords, lastFetchTime, now, run, reader, hist,
                 storeVars>>

ApplyReplacementPatterns ==
  Return("applyReplacementPatterns",
         applyReplacementPatterns(req.text, req.patterns))

\* the initial state with a call in flight
InitWith(calls) ==
  /\ articles = <<>>
  /\ keywords = {}
  /\ lastFetchTime = 0
  /\ now = StartTime
  /\ run = [p \in Runs |-> IdleRun]
  /\ reader = IdleReader
  /\ lastOp = [op |-> "none", p |-> 0, a |-> <<>>, r |-> <<>>]
  /\ hist = NoHist
  /\ req \in calls
  /\ NoCalls

SeqsUpTo(S, n) == UNION {[1..k -> S] : k \in 0..n}

TextChars == {"a", "b", "A"}

FindTexts == {<<"a">>, <<"b">>, <<"a", "b">>}

ReplaceTexts ==
  {<<>>, <<"b">>, <<"x">>, <<"$", "$">>, <<"$", "&", "$", "&">>}

PatternUniverse ==
  [findText : FindTexts, replaceText : ReplaceTexts, caseSensitive : BOOLEAN]

ReplaceCalls ==
  {[op |-> "applyReplacementPatterns", text |-> t, patterns |-> ps] :
     t \in SeqsUpTo(TextChars, MaxText),
     ps \in SeqsUpTo(PatternUniverse, MaxPatterns)}

InitReplace == InitWith(ReplaceCalls)

NextReplace == ApplyReplacementPatterns

SpecReplace == InitReplace /\ [][NextReplace]_vars

(***************************************************************************)
(* deduplicateArticles.  An article of the service is a record of its url, *)
(* title, summary, keywords, sentiment (in tenths) and publishedAt; id is  *)
(* the identity of the object.                                             *)
(***************************************************************************)
MaxInput == 2        \* longest article list given to the service
RecencyWindow == 43200   \* the 30 days of the recency points, in minutes

\* String.prototype.trim
RECURSIVE TrimLeft(_)
TrimLeft(t) == IF t # <<>> /\ Head(t) = " " THEN TrimLeft(Tail(t)) ELSE t

RECURSIVE TrimRight(_)
TrimRight(t) ==
  IF t # <<>> /\ t[Len(t)] = " " THEN TrimRight(SubSeq(t, 1, Len(t) - 1)) ELSE t

Trim(t) == TrimRight(TrimLeft(t))

\* article.title.toLowerCase().trim()
NormalTitle(article) == Trim(ToLower(article.title))

\* article.url.toLowerCase().trim()
LowerUrl(article) ==
  [scheme |-> article.url.scheme, host |-> Lower(article.url.host),
   path |-> LowerPath(article.url.path), query |-> LowerQuery(article.url.query)]

\* text.split(/\s+/), as the set of the pieces; word is the piece being read
RECURSIVE Split(_, _)
Split(text, word) ==
  IF text = <<>> THEN {word}
  ELSE IF Head(text) = " " THEN {word} \cup Split(Tail(text), <<>>)
  ELSE Split(Tail(text), Append(word, Head(text)))

\* text.toLowerCase().split(/\s+/).filter(w => w.length > 3), as a set
LongWords(text) == {w \in Split(ToLower(text), <<>>) : Len(w) > 3}

\* calculateTextSimilarity >= 0.8
IsSimilar_Inclusive(text1, text2) ==
  LET words1 == LongWords(text1)
      words2 == LongWords(text2)
  IN /\ words1 # {}
     /\ words2 # {}
     /\ 5 * Cardinality(words1 \cap words2) >= 4 * Cardinality(words1 \cup words2)

\* calculateTextSimilarity > 0.8: intersection / union > 4 / 5
IsSimilar(text1, text2) ==
  LET words1 == LongWords(text1)
      words2 == LongWords(text2)
  IN /\ words1 # {}
     /\ words2 # {}
     /\ 5 * Cardinality(words1 \cap words2) > 4 * Cardinality(words1 \cup words2)

\* calculateArticleQuality, times 28800 (sentiment is in tenths, the summary
\* length counts a 20th, the age is in minutes of a day of 1440)
calculateArticleQuality(article, t) ==
  288000 * article.sentiment
  + 1440 * Min(1000, Len(article.summary))
  + 20 * Max(0, RecencyWindow - (t - article.publishedAt))

\* uniqueArticles[uniqueArticles.indexOf(existing)] = article
ReplaceIn(unique, existing, article) ==
  LET index == CHOOSE i \in 1..Len(unique) :
                 unique[i] = existing /\ \A j \in 1..(i - 1) : unique[j] # existing
  IN IF \E i \in 1..Len(unique) : unique[i] = existing
     THEN [unique EXCEPT ![index] = article]
     ELSE unique

\* seenTitles.delete(gone), then seenTitles.set(title, article)
SetTitle(seenTitles, gone, title, article) ==
  [x \in (DOMAIN seenTitles \ gone) \cup {title} |->
     IF x = title THEN article ELSE seenTitles[x]]

\* a loop body that never replaces an accepted article
DedupStep_KeepsFirst(st, article, t) ==
  LET title == NormalTitle(article)
      url == LowerUrl(article)
  IN IF \/ url \in st.seenUrls
        \/ title \in DOMAIN st.seenTitles
        \/ \E i \in 1..Len(st.unique) :
             IsSimilar(article.summary, st.unique[i].summary)
     THEN st
     ELSE [unique |-> Append(st.unique, article),
           seenTitles |-> SetTitle(st.seenTitles, {}, title, article),
           seenUrls |-> st.seenUrls \cup {url}]

\* the body of the loop of deduplicateArticles
DedupStep(st, article, t) ==
  LET title == NormalTitle(article)
      url == LowerUrl(article)
  IN IF url \in st.seenUrls THEN st
     ELSE IF title \in DOMAIN st.seenTitles
     THEN LET existing == st.seenTitles[title]
          IN IF calculateArticleQuality(article, t)
                  > calculateArticleQuality(existing, t)
             THEN [unique |-> ReplaceIn(st.unique, existing, article),
                   seenTitles |-> SetTitle(st.seenTitles, {}, title, article),
                   seenUrls |-> (st.seenUrls \ {LowerUrl(existing)}) \cup {url}]
             ELSE st
     ELSE LET similar == {i \in 1..Len(st.unique) :
                            IsSimilar(article.summary, st.unique[i].summary)}
          IN IF similar # {}
             THEN LET existing == st.unique[CHOOSE i \in similar :
                                              \A j \in similar : i <= j]
                  IN IF calculateArticleQuality(article, t)
                          > calculateArticleQuality(existing, t)
                     THEN [unique |-> ReplaceIn(st.unique, existing, article),
                           seenTitles |-> SetTitle(st.seenTitles,
                                                   {NormalTitle(existing)},
                                                   title, article),
                           seenUrls |-> (st.seenUrls \ {LowerUrl(existing)})
                                          \cup {url}]
                     ELSE st
             ELSE [unique |-> Append(st.unique, article),
                   seenTitles |-> SetTitle(st.seenTitles, {}, title, article),
                   seenUrls |-> st.seenUrls \cup {url}]

RECURSIVE DedupLoop(_, _, _)
DedupLoop(st, list, t) ==
  IF list = <<>> THEN st
  ELSE DedupLoop(DedupStep(st, Head(list), t), Tail(list), t)

deduplicateArticles(list, t) ==
  DedupLoop([unique |-> <<>>, seenUrls |-> {}, seenTitles |-> <<>>], list, t).unique

Deduplicate ==
  Return("deduplicateArticles", deduplicateArticles(req.articles, now))

\* the articles the calls are made with
Word(c) == <<c, c, c, c>>

RECURSIVE JoinWords(_)
JoinWords(ws) ==
  IF ws = <<>> THEN <<>>
  ELSE IF Len(ws) = 1 THEN ws[1]
  ELSE ws[1] \o <<" ">> \o JoinWords(Tail(ws))

Titles == {Word("a"), <<" ">> \o Word("A"), Word("b")}

Summaries ==
  {JoinWords(<<Word("a"), Word("b"), Word("c"), Word("d")>>),
   JoinWords(<<Word("a"), Word("b"), Word("c"), Word("d"), Word("e")>>),
   JoinWords(<<Word("a"), Word("b"), Word("c"), Word("d"), Word("e"), Word("f")>>),
   <<"a", "b", " ", "c", "d">>}

ArticleUrls ==
  {Url("a.com", <<"x">>, <<>>), Url("A.com", <<"x">>, <<>>),
   Url("a.com", <<"w">>, <<>>)}

\* sentiment and publishedAt
Ratings == {<<5, StartTime - 2000>>, <<9, StartTime - 10>>}

ArticleFields ==
  {[url |-> u, title |-> ti, summary |-> su, keywords |-> {},
    sentiment |-> ra[1], publishedAt |-> ra[2]] :
     u \in ArticleUrls, ti \in Titles, su \in Summaries, ra \in Ratings}

\* the objects of a list: the article at position k has id k
Objects(fields) == [k \in 1..Len(fields) |-> [id |-> k] @@ fields[k]]

DedupCalls ==
  {[op |-> "deduplicateArticles", articles |-> Objects(f)] :
     f \in SeqsUpTo(ArticleFields, MaxInput)}

InitDedup == InitWith(DedupCalls)

NextDedup == Deduplicate

SpecDedup == InitDedup /\ [][NextDedup]_vars

(***************************************************************************)
(* deduplicateArticles on lists of three: articles of three URLs.          *)
(***************************************************************************)
MaxList == 3         \* longest list of the calls with three URLs

ListFields ==
  {[url |-> u, title |-> ti, summary |-> su, keywords |-> {},
    sentiment |-> ra[1], publishedAt |-> ra[2]] :
     u \in {Url("a.com", <<"x">>, <<>>), Url("a.com", <<"w">>, <<>>),
            Url("a.com", <<"v">>, <<>>)},
     ti \in {Word("a"), Word("b")},
     su \in {JoinWords(<<Word("a"), Word("b"), Word("c"), Word("d")>>),
             JoinWords(<<Word("a"), Word("b"), Word("c"), Word("d"), Word("e")>>),
             JoinWords(<<Word("a"), Word("b"), Word("c"), Word("d"), Word("e"),
                         Word("f")>>)},
     ra \in Ratings}

ListCalls ==
  {[op |-> "deduplicateArticles", articles |-> Objects(f)] :
     f \in SeqsUpTo(ListFields, MaxList)}

InitList == InitWith(ListCalls)

SpecList == InitList /\ [][NextDedup]_vars

(***************************************************************************)
(* applyFilters.  The store holds the keyword rows by type, the            *)
(* replacement patterns and the preferences rows of the user "u1" (none or *)
(* one); the userId "none" stands for undefined.  src/ holds the service   *)
(* twice: with the deduplication stage and without it.                     *)
(***************************************************************************)
DefaultThreshold == 7      \* 0.7, in tenths
FreshWindow == 43200       \* dateCutoffDays, in minutes

\* String.prototype.includes
IncludesSeq(text, term) ==
  \E i \in 1..(Len(text) + 1) : MatchesAt(text, i, term, TRUE)

\* storage.getUserPreferences: the rows selected, of which the caller has the
\* first, or the default object
getUserPreferences(userId, store) ==
  IF userId # "none" THEN store.preferences
  ELSE <<[sentimentThreshold |-> DefaultThreshold]>>

\* preferences?.sentimentThreshold || 0.7
Threshold(preferences) ==
  IF preferences = <<>> \/ preferences[1].sentimentThreshold = 0
  THEN DefaultThreshold
  ELSE preferences[1].sentimentThreshold

fetchUserFilterConfig(userId, store) ==
  [userId |-> userId,
   blockedKeywords |-> [i \in 1..Len(store.blocked) |-> ToLower(store.blocked[i])],
   prioritizedKeywords |->
     [i \in 1..Len(store.prioritized) |-> ToLower(store.prioritized[i])],
   replacementPatterns |-> IF userId # "none" THEN store.patterns ELSE <<>>,
   sentimentThreshold |-> Threshold(getUserPreferences(userId, store)),
   dateCutoff |-> FreshWindow]

\* `${article.title} ${article.summary}`.toLowerCase()
ArticleText(article) == ToLower(article.title \o <<" ">> \o article.summary)

computePriorityScore(article, prioritizedKeywords) ==
  Cardinality({i \in 1..Len(prioritizedKeywords) :
                 IncludesSeq(ArticleText(article), prioritizedKeywords[i])})
  + Cardinality({i \in 1..Len(prioritizedKeywords) :
                   \E kw \in article.keywords :
                     IncludesSeq(ToLower(kw), prioritizedKeywords[i])})

\* a test of the blocked terms that leaves out the keywords of the article
HasBlockedKeyword_TextOnly(article, blockedKeywords) ==
  \E i \in 1..Len(blockedKeywords) :
    IncludesSeq(ArticleText(article), blockedKeywords[i])

HasBlockedKeyword(article, blockedKeywords) ==
  \E i \in 1..Len(blockedKeywords) :
    \/ IncludesSeq(ArticleText(article), blockedKeywords[i])
    \/ \E kw \in article.keywords : IncludesSeq(ToLower(kw), blockedKeywords[i])

\* the comparator of the final sort
Compare(a, b) ==
  IF b.priorityScore - a.priorityScore # 0
  THEN b.priorityScore - a.priorityScore
  ELSE b.sentiment - a.sentiment

\* Array.prototype.sort is stable
RECURSIVE InsertSorted(_, _)
InsertSorted(sorted, a) ==
  IF sorted = <<>> THEN <<a>>
  ELSE IF Compare(Head(sorted), a) <= 0
  THEN <<Head(sorted)>> \o InsertSorted(Tail(sorted), a)
  ELSE <<a>> \o sorted

\* a sort that leaves the list as it is
SortFiltered_Unsorted(list) == list

RECURSIVE SortFiltered(_)
SortFiltered(list) ==
  IF list = <<>> THEN <<>>
  ELSE InsertSorted(SortFiltered(SubSeq(list, 1, Len(list) - 1)), list[Len(list)])

\* steps 1 to 4: freshness, blocked keywords, scoring, replacements
Transformed(list, config, t) ==
  LET fresh == SelectSeq(list, LAMBDA a : a.publishedAt >= t - config.dateCutoff)
      allowed == SelectSeq(fresh,
                           LAMBDA a : ~HasBlockedKeyword(a, config.blockedKeywords))
  IN [i \in 1..Len(allowed) |->
        [[priorityScore |->
            computePriorityScore(allowed[i], config.prioritizedKeywords)]
         @@ allowed[i]
         EXCEPT !.title = applyReplacementPatterns(allowed[i].title,
                                                   config.replacementPatterns),
                !.summary = applyReplacementPatterns(allowed[i].summary,
                                                     config.replacementPatterns)]]

\* step 5 and the sort
Finished(list, config) ==
  SortFiltered(SelectSeq(list, LAMBDA a : a.sentiment >= config.sentimentThreshold))

\* applyFilters of services/filteringService.ts
applyFilters_NoDedup(list, userId, store, t) ==
  LET config == fetchUserFilterConfig(userId, store)
  IN Finished(Transformed(list, config, t), config)

\* applyFilters with step 0
applyFilters(list, userId, store, t) ==
  LET config == fetchUserFilterConfig(userId, store)
  IN Finished(Transformed(deduplicateArticles(list, t), config, t), config)

ApplyFilters ==
  Return("applyFilters",
         applyFilters(req.articles, req.userId, req.store, now))

ApplyFiltersNoDedup ==
  Return("applyFilters",
         applyFilters_NoDedup(req.articles, req.userId, req.store, now))

\* the articles the calls are made with
Article(url, title, summary, kws, sentiment, age) ==
  [url |-> url, title |-> title, summary |-> summary, keywords |-> kws,
   sentiment |-> sentiment, publishedAt |-> StartTime - age]

FilterArticles ==
  {Article(Url("a.com", <<"x">>, <<<<"utm_source", "y">>>>),
           <<"a">>, <<"c">>, {}, 9, 10),
   Article(Url("a.com", <<"x", "">>, <<>>),
           <<"c">>, <<"a">>, {<<"a">>}, 7, 10),
   Article(Url("a.com", <<"w">>, <<>>),
           <<"a", "b">>, <<>>, {}, 9, 10),
   Article(Url("a.com", <<"v">>, <<>>),
           <<"c", "c">>, <<"c">>, {<<"B">>}, 9, 10),
   Article(Url("a.com", <<"u">>, <<>>),
           <<"A">>, <<"c", " ", "c">>, {}, 10, FreshWindow),
   Article(Url("a.com", <<"t">>, <<>>),
           <<"c", "a">>, <<>>, {}, 9, FreshWindow + 1),
   Article(Url("a.com", <<"s">>, <<>>),
           <<"c", "A">>, <<"c">>, {<<"c">>}, 5, 10)}

Stores ==
  [blocked : {<<>>, <<<<"B">>>>},
   prioritized : {<<>>, <<<<"A">>, <<"c">>>>},
   patterns : {<<>>,
               <<[findText |-> <<"a">>, replaceText |-> <<"b">>,
                  caseSensitive |-> FALSE]>>,
               <<[findText |-> <<"c">>, replaceText |-> <<"$", "&", "$", "&">>,
                  caseSensitive |-> TRUE]>>},
   preferences : {<<>>} \cup {<<[sentimentThreshold |-> th]>> : th \in {0, 5, 10}}]

FilterCalls ==
  {[op |-> "applyFilters", articles |-> Objects(f), userId |-> u, store |-> st] :
     f \in SeqsUpTo(FilterArticles, MaxInput), u \in {"none", "u1"}, st \in Stores}

InitFilter == InitWith(FilterCalls)

NextFilter == ApplyFilters \/ ApplyFiltersNoDedup

SpecFilter == InitFilter /\ [][NextFilter]_vars

(***************************************************************************)
(* The writers of the articles table next to a reader: a run of            *)
(* fetchLatestNews, and a request that calls applyFilters.                 *)
(***************************************************************************)
FrameCalls ==
  {c \in FilterCalls : /\ Len(c.articles) = 1
                       /\ c.userId = "none"
                       /\ c.store.blocked = <<>>
                       /\ c.store.prioritized = <<>>
                       /\ c.store.patterns = <<>>
                       /\ c.store.preferences = <<>>}

InitFrame == InitWith(FrameCalls)

NextFrame ==
  \/ RunStep(1, FALSE, {TRUE})
  \/ ApplyFilters
  \/ ApplyFiltersNoDedup

SpecFrame == InitFrame /\ [][NextFrame]_vars

(***************************************************************************)
(* processNewsAPIArticles with requests to OpenAI that fail.               *)
(***************************************************************************)
ProcessNewsAPIArticles ==
  Return("processNewsAPIArticles", processNewsAPIArticles(req.batch, req.ai))

EnrichCalls ==
  {[op |-> "processNewsAPIArticles", batch |-> b, ai |-> ai] :
     b \in SeqsUpTo(ItemIds, MaxBatch), ai \in AiOutcomes}

InitEnrich == InitWith(EnrichCalls)

NextEnrich == ProcessNewsAPIArticles

SpecEnrich == InitEnrich /\ [][NextEnrich]_vars

(***************************************************************************)
(* The storage operations behind the article and podcast routes            *)
(* (DatabaseStorage) and regeneratePodcast.  A call is cut at its awaits:  *)
(* between two steps of one call the steps of another call may run.        *)
(***************************************************************************)
UserIds == {"u1", "u2"}

Known(table, id) == id \in 1..Len(table)

Result(kind, success, likes) ==
  [kind |-> kind, success |-> success, likes |-> likes]

Pending == Result("pending", FALSE, 0)

Undefined == Result("undefined", FALSE, 0)

Threw == Result("threw", FALSE, 0)

Returned == Result("returned", TRUE, 0)

\* a row of user_article_likes or of user_saved_articles
UserArticle(userId, articleId) == [userId |-> userId, articleId |-> articleId]

\* select ... where user_id = userId and article_id = articleId
Existing(table, userId, articleId) ==
  {i \in 1..Len(table) : table[i] = UserArticle(userId, articleId)}

\* select ... from user_article_likes where article_id = articleId
LikesOf(table, articleId) ==
  {i \in 1..Len(table) : table[i].articleId = articleId}

\* delete ... where user_id = userId and article_id = articleId
DeleteRows(table, userId, articleId) ==
  SelectSeq(table, LAMBDA row : row # UserArticle(userId, articleId))

\* the tables user_article_likes and user_saved_articles are declared in a
\* schema that is not part of the sources: an insert that names an article
\* that is not stored, or a pair that is already stored, is accepted when
\* the table has no such constraint and rejected when it has one
MayReject(table, userId, articleId) ==
  \/ ~Known(articles, articleId)
  \/ Existing(table, userId, articleId) # {}

\* (...find(a => a.id === id)?.views || 0 + 1): the sum binds before ||
ViewsUpdate(table, id) ==
  IF Known(table, id) /\ table[id].views # 0
  THEN table[id].views
  ELSE 1

Begin(c, op, id, userId, pc) ==
  [IdleCall EXCEPT !.op = op, !.id = id, !.userId = userId, !.pc = pc]

\* a step of call c that is not its last one
Goto(c, next) ==
  /\ inflight' = [inflight EXCEPT ![c] = next]
  /\ lastOp' = Op(next.op, c, next, Pending)

\* the last step of call c
Finish(c, result) ==
  /\ inflight' = [inflight EXCEPT ![c] = IdleCall]
  /\ lastOp' = Op(inflight[c].op, c, inflight[c], result)

At(c, op, pc) == inflight[c].op = op /\ inflight[c].pc = pc

Rest == <<keywords, lastFetchTime, now, run, reader, hist, req>>

\* POST /api/articles/:id/view: storage.getArticles()
ViewArticle(c, id) ==
  /\ inflight[c].pc = "idle"
  /\ Goto(c, [Begin(c, "viewArticle", id, "none", "updateArticle")
                EXCEPT !.n = ViewsUpdate(articles, id)])
  /\ UNCHANGED <<articles, userArticleLikes, userSavedArticles, podcasts, Rest>>

\* POST /api/articles/:id/view: storage.updateArticle(id, {views}), res.json
ViewUpdate(c) ==
  /\ At(c, "viewArticle", "updateArticle")
  /\ articles' = updateArticle(articles, inflight[c].id, "views", inflight[c].n)
  /\ Finish(c, IF Known(articles, inflight[c].id) THEN Returned ELSE Undefined)
  /\ UNCHANGED <<userArticleLikes, userSavedArticles, podcasts, Rest>>

\* likeArticle: the select of the existing like
LikeArticle(c, id, userId) ==
  /\ inflight[c].pc = "idle"
  /\ Goto(c, Begin(c, "likeArticle", id, userId,
                   IF Existing(userArticleLikes, userId, id) # {}
                   THEN "selectArticle" ELSE "insert"))
  /\ UNCHANGED <<articles, userArticleLikes, userSavedArticles, podcasts, Rest>>

\* unlikeArticle: the select of the existing like
UnlikeArticle(c, id, userId) ==
  /\ inflight[c].pc = "idle"
  /\ Goto(c, Begin(c, "unlikeArticle", id, userId,
                   IF Existing(userArticleLikes, userId, id) = {}
                   THEN "selectArticle" ELSE "delete"))
  /\ UNCHANGED <<articles, userArticleLikes, userSavedArticles, podcasts, Rest>>

\* return { success: false, likes: article[0]?.likes || 0 }
SelectArticle(c) ==
  /\ inflight[c].pc = "selectArticle"
  /\ Finish(c, Result("returned", FALSE,
                      IF Known(articles, inflight[c].id)
                      THEN articles[inflight[c].id].likes ELSE 0))
  /\ UNCHANGED <<articles, userArticleLikes, userSavedArticles, podcasts, Rest>>

\* db.insert(userArticleLikes).values({ userId, articleId })
InsertLike(c, accepted) ==
  /\ At(c, "likeArticle", "insert")
  /\ accepted \/ MayReject(userArticleLikes, inflight[c].userId, inflight[c].id)
  /\ IF accepted
     THEN /\ userArticleLikes' =
               Append(userArticleLikes, UserArticle(inflight[c].userId, inflight[c].id))
          /\ Goto(c, [inflight[c] EXCEPT !.pc = "count"])
     ELSE /\ Finish(c, Threw)
          /\ UNCHANGED userArticleLikes
  /\ UNCHANGED <<articles, userSavedArticles, podcasts, Rest>>

\* db.delete(userArticleLikes).where(...)
DeleteLike(c) ==
  /\ At(c, "unlikeArticle", "delete")
  /\ userArticleLikes' = DeleteRows(userArticleLikes, inflight[c].userId, inflight[c].id)
  /\ Goto(c, [inflight[c] EXCEPT !.pc = "count"])
  /\ UNCHANGED <<articles, userSavedArticles, podcasts, Rest>>

\* const likes = count.length
CountLikes(c) ==
  /\ inflight[c].pc = "count"
  /\ Goto(c, [inflight[c] EXCEPT !.pc = "update",
                             !.n = Cardinality(LikesOf(userArticleLikes, inflight[c].id))])
  /\ UNCHANGED <<articles, userArticleLikes, userSavedArticles, podcasts, Rest>>

\* db.update(articles).set({ likes }); return { success: true, likes }
UpdateLikes(c) ==
  /\ inflight[c].pc = "update"
  /\ articles' = updateArticle(articles, inflight[c].id, "likes", inflight[c].n)
  /\ Finish(c, Result("returned", TRUE, inflight[c].n))
  /\ UNCHANGED <<userArticleLikes, userSavedArticles, podcasts, Rest>>

\* saveArticle: the select of the existing save and return { success: false }
SaveArticle(c, id, userId) ==
  /\ inflight[c].pc = "idle"
  /\ IF Existing(userSavedArticles, userId, id) # {}
     THEN /\ lastOp' = Op("saveArticle", c,
                          Begin(c, "saveArticle", id, userId, "idle"),
                          Result("returned", FALSE, 0))
          /\ UNCHANGED inflight
     ELSE Goto(c, Begin(c, "saveArticle", id, userId, "insert"))
  /\ UNCHANGED <<articles, userArticleLikes, userSavedArticles, podcasts, Rest>>

\* db.insert(userSavedArticles).values({ userId, articleId })
InsertSave(c, accepted) ==
  /\ At(c, "saveArticle", "insert")
  /\ accepted \/ MayReject(userSavedArticles, inflight[c].userId, inflight[c].id)
  /\ IF accepted
     THEN /\ userSavedArticles' =
               Append(userSavedArticles, UserArticle(inflight[c].userId, inflight[c].id))
          /\ Finish(c, Returned)
     ELSE /\ Finish(c, Threw)
          /\ UNCHANGED userSavedArticles
  /\ UNCHANGED <<articles, userArticleLikes, podcasts, Rest>>

(***************************************************************************)
(* Podcasts.  A script is named by its text; the URL of an audio file by   *)
(* where it came from.                                                     *)
(***************************************************************************)
ScriptFailed == "Script generation failed."

wordCount(script) ==
  CASE script = "old" -> 150
    [] script = "new" -> 300
    [] script = ScriptFailed -> 3
    [] OTHER -> 0

\* Math.ceil((wordCount / 150) * 60)
estimateDuration(script) == (wordCount(script) * 60 + 149) \div 150

\* update podcasts set ... where id = ...
updatePodcast(table, id, updates) ==
  IF Known(table, id)
  THEN [table EXCEPT ![id] = [f \in DOMAIN @ |->
                                IF f \in DOMAIN updates THEN updates[f] ELSE @[f]]]
  ELSE table

\* storage.updatePodcast called with an id
UpdatePodcast(c, id, updates) ==
  /\ inflight[c].pc = "idle"
  /\ podcasts' = updatePodcast(podcasts, id, updates)
  /\ lastOp' = Op("updatePodcast", c, Begin(c, "updatePodcast", id, "none", "idle"),
                  IF Known(podcasts, id) THEN Returned ELSE Undefined)
  /\ UNCHANGED <<articles, userArticleLikes, userSavedArticles, inflight, Rest>>

\* regeneratePodcast: getPodcast and the throw of "Podcast not found"
RegeneratePodcast(c, id) ==
  /\ inflight[c].pc = "idle"
  /\ IF Known(podcasts, id)
     THEN Goto(c, Begin(c, "regeneratePodcast", id, "none", "markProcessing"))
     ELSE /\ lastOp' = Op("regeneratePodcast", c,
                          Begin(c, "regeneratePodcast", id, "none", "idle"), Threw)
          /\ UNCHANGED inflight
  /\ UNCHANGED <<articles, userArticleLikes, userSavedArticles, podcasts, Rest>>

\* updatePodcast(id, { isProcessing: true }), before the try
MarkProcessing(c, ok) ==
  /\ At(c, "regeneratePodcast", "markProcessing")
  /\ IF ok
     THEN /\ podcasts' = updatePodcast(podcasts, inflight[c].id, [isProcessing |-> TRUE])
          /\ Goto(c, [inflight[c] EXCEPT !.pc = "generateScript"])
     ELSE /\ Finish(c, Threw)
          /\ UNCHANGED podcasts
  /\ UNCHANGED <<articles, userArticleLikes, userSavedArticles, Rest>>

\* getArticles and generateScript: the script of the model, the text
\* "Script generation failed." for an empty answer, or a rejected request
ScriptOutcomes == {"new", ScriptFailed, "rejected"}

GenerateScript(c, outcome) ==
  /\ At(c, "regeneratePodcast", "generateScript")
  /\ Goto(c, [inflight[c] EXCEPT !.script = outcome,
                             !.pc = IF outcome = "rejected"
                                    THEN "catch" ELSE "generateAudio"])
  /\ UNCHANGED <<articles, userArticleLikes, userSavedArticles, podcasts, Rest>>

\* generateAudio: the uploaded file, or the simulated URL that its catch
\* returns when the text-to-speech request fails
GenerateAudio(c, ok) ==
  /\ At(c, "regeneratePodcast", "generateAudio")
  /\ Goto(c, [inflight[c] EXCEPT !.audio = IF ok THEN "tts" ELSE "simulated",
                             !.pc = "updatePodcast"])
  /\ UNCHANGED <<articles, userArticleLikes, userSavedArticles, podcasts, Rest>>

\* updatePodcast(id, { transcript, audioUrl, duration, isProcessing: false })
SavePodcast(c, ok) ==
  /\ At(c, "regeneratePodcast", "updatePodcast")
  /\ IF ok
     THEN /\ podcasts' = updatePodcast(podcasts, inflight[c].id,
                           [transcript |-> inflight[c].script,
                            audioUrl |-> inflight[c].audio,
                            duration |-> estimateDuration(inflight[c].script),
                            isProcessing |-> FALSE])
          /\ Finish(c, Returned)
     ELSE /\ Goto(c, [inflight[c] EXCEPT !.pc = "catch"])
          /\ UNCHANGED podcasts
  /\ UNCHANGED <<articles, userArticleLikes, userSavedArticles, Rest>>

\* catch: updatePodcast(id, { isProcessing: false }); throw error
CatchRegenerate(c, ok) ==
  /\ At(c, "regeneratePodcast", "catch")
  /\ podcasts' = IF ok
                 THEN updatePodcast(podcasts, inflight[c].id, [isProcessing |-> FALSE])
                 ELSE podcasts
  /\ Finish(c, Threw)
  /\ UNCHANGED <<articles, userArticleLikes, userSavedArticles, Rest>>

\* a stored article and a stored podcast
InitStore ==
  /\ articles = createArticle(<<>>, processRSSArticlesWithFallback(<<1>>)[1]).table
  /\ keywords = {}
  /\ lastFetchTime = 0
  /\ now = StartTime
  /\ run = [p \in Runs |-> IdleRun]
  /\ reader = IdleReader
  /\ lastOp = Op("none", 0, IdleCall, Pending)
  /\ hist = NoHist
  /\ req = NoReq
  /\ userArticleLikes = <<>>
  /\ userSavedArticles = <<>>
  /\ podcasts = <<[transcript |-> "old", audioUrl |-> "old",
                   duration |-> estimateDuration("old"), isProcessing |-> FALSE]>>
  /\ inflight = [c \in Callers |-> IdleCall]

\* the ids of the requests: 1 is stored, 2 is not
RequestIds == {1, 2}

\* the user of the requests
RequestUsers == {"u1"}

\* requests served one after the other, for ids that are stored or not
NextRoutes ==
  \/ \E id \in RequestIds : ViewArticle(1, id)
  \/ ViewUpdate(1)
  \/ \E id \in RequestIds, u \in RequestUsers : LikeArticle(1, id, u)
  \/ \E id \in RequestIds, u \in RequestUsers : UnlikeArticle(1, id, u)
  \/ SelectArticle(1)
  \/ \E accepted \in BOOLEAN : InsertLike(1, accepted)
  \/ DeleteLike(1)
  \/ CountLikes(1)
  \/ UpdateLikes(1)
  \/ \E id \in RequestIds, u \in RequestUsers : SaveArticle(1, id, u)
  \/ \E accepted \in BOOLEAN : InsertSave(1, accepted)
  \/ \E id \in RequestIds : UpdatePodcast(1, id, [isProcessing |-> FALSE])
  \/ \E id \in RequestIds : RegeneratePodcast(1, id)
  \/ \E ok \in BOOLEAN : MarkProcessing(1, ok)
  \/ \E outcome \in ScriptOutcomes : GenerateScript(1, outcome)
  \/ \E ok \in BOOLEAN : GenerateAudio(1, ok)
  \/ \E ok \in BOOLEAN : SavePodcast(1, ok)
  \/ \E ok \in BOOLEAN : CatchRegenerate(1, ok)

SpecRoutes == InitStore /\ [][NextRoutes]_vars

\* likeArticle and unlikeArticle of the stored article, interleaved
NextLikes ==
  \E c \in Callers :
    \/ \E u \in UserIds : LikeArticle(c, 1, u)
    \/ \E u \in UserIds : UnlikeArticle(c, 1, u)
    \/ SelectArticle(c)
    \/ \E accepted \in BOOLEAN : InsertLike(c, accepted)
    \/ DeleteLike(c)
    \/ CountLikes(c)
    \/ UpdateLikes(c)

SpecLikes == InitStore /\ [][NextLikes]_vars

\* regeneratePodcast of the stored podcast
NextPodcast ==
  \E c \in Callers :
    \/ RegeneratePodcast(c, 1)
    \/ \E ok \in BOOLEAN : MarkProcessing(c, ok)
    \/ \E outcome \in ScriptOutcomes : GenerateScript(c, outcome)
    \/ \E ok \in BOOLEAN : GenerateAudio(c, ok)
    \/ \E ok \in BOOLEAN : SavePodcast(c, ok)
    \/ \E ok \in BOOLEAN : CatchRegenerate(c, ok)

SpecPodcast == InitStore /\ [][NextPodcast]_vars

(***************************************************************************)
(* Properties.                                                             *)
(***************************************************************************)
Marking(p) == run[p].pc \in {"markCurated", "markTopFive"}

\* the ranks from..to of a ranking
Ranks(sorted, from, to) == {sorted[i] : i \in from..Min(to, Len(sorted))}

\* C1: no article is flagged isCurated and isTopFive at the same time.
C1_FlagsExclusive ==
  \A i \in 1..Len(articles) : ~(articles[i].isCurated /\ articles[i].isTopFive)

\* C2: when a run has completed, the articles flagged isTopFive are exactly
\* the ids the run selected as top five and the articles flagged isCurated
\* are exactly the ids it selected as curated (at most 5 and at most 15).
C2_FlagsAreTheRunsSelection ==
  (lastOp.op = "runEnd" /\ lastOp.r = "returned" /\ ~lastOp.a.failed)
  => /\ TopFiveSet(articles) = lastOp.a.top
     /\ CuratedSet(articles) = lastOp.a.cur
     /\ Cardinality(TopFiveSet(articles)) <= TopFiveLimit
     /\ Cardinality(CuratedSet(articles)) <= CuratedLimit

\* C3: the top five of a run are ranks 1-5 of its ranking and its curated
\* articles are ranks 6-20, so the two selections are disjoint.
C3_SelectionIsPartition ==
  \A p \in Runs :
    Marking(p) =>
      /\ TopFiveIds(run[p].sorted) = Ranks(run[p].sorted, 1, TopFiveLimit)
      /\ CuratedIds(run[p].sorted)
           = Ranks(run[p].sorted, TopFiveLimit + 1, TopFiveLimit + CuratedLimit)
      /\ TopFiveIds(run[p].sorted) \cap CuratedIds(run[p].sorted) = {}
      /\ Cardinality(TopFiveIds(run[p].sorted)) <= TopFiveLimit
      /\ Cardinality(CuratedIds(run[p].sorted)) <= CuratedLimit

\* C4: setCurationFlagsBulk called with an id in both lists fails and leaves
\* every article as it was.
C4_OverlapRejected ==
  [][(lastOp'.op = "setCurationFlagsBulk" /\ lastOp'.a # {})
       => (lastOp'.r = "error" /\ articles' = articles)]_vars

C4_Witness ==
  /\ lastOp.op = "setCurationFlagsBulk"
  /\ lastOp.a \cap (1..Len(articles)) # {}
  /\ lastOp.r = "error"
  /\ CuratedSet(articles) # {}

\* C5: what a reader obtained from getCuratedArticles and getTopFiveArticles
\* while a run was in flight is the flag assignment from before the run or
\* the one after it.
C5_ReaderSeesWholeAssignment ==
  [][(lastOp'.op = "runEnd" /\ hist.on)
       => /\ hist.cIn => hist.obsCurated \in
                           {hist.beforeCurated, CuratedSet(articles')}
          /\ hist.tIn => hist.obsTop \in
                           {hist.beforeTop, TopFiveSet(articles')}]_vars

ValuesOf(q, name) ==
  LET sel == SelectSeq(q, LAMBDA p : p[1] = name)
  IN [i \in 1..Len(sel) |-> sel[i][2]]

\* how often a query holds a parameter
Occurrences(q, param) == Len(SelectSeq(q, LAMBDA p : p = param))

\* a path without one trailing slash; the root path stays "/"
WithoutSlash(path) ==
  IF Len(path) > 1 /\ path[Len(path)] = "" THEN SubSeq(path, 1, Len(path) - 1)
  ELSE path

SameButForHostAndSlash(u, v) ==
  /\ u.scheme = v.scheme
  /\ Lower(u.host) = Lower(v.host)
  /\ WithoutSlash(u.path) = WithoutSlash(v.path)

\* the two URLs differ only in tracking parameters, the case of the host,
\* one trailing slash and the order of their parameters
SameButForNoise(u, v) ==
  /\ SameButForHostAndSlash(u, v)
  /\ \A p \in UrlParams :
       p[1] \notin trackingParams => Occurrences(u.query, p) = Occurrences(v.query, p)

\* as SameButForNoise, and parameters of one name are in the same order
SameButForNoiseAndNameOrder(u, v) ==
  /\ SameButForHostAndSlash(u, v)
  /\ \A p \in UrlParams :
       p[1] \notin trackingParams => ValuesOf(u.query, p[1]) = ValuesOf(v.query, p[1])

IsNormalKey(key, u) ==
  /\ key.host = Lower(key.host)
  /\ \A i \in 1..Len(key.query) : key.query[i][1] \notin trackingParams
  /\ \A i \in 1..Len(key.query) - 1 :
       NameRank(key.query[i][1]) <= NameRank(key.query[i + 1][1])
  /\ key.path = WithoutSlash(u.path)

SecondStore == run[1].pc = "store" /\ run[1].k = 2 /\ lastOp'.op = "createArticle"

C9_RateLimit ==
  [][lastOp'.op = "fetchLatestNews"
       => /\ (lastOp'.r = "started")
               <=> (lastOp'.a \/ now - lastFetchTime >= FETCH_INTERVAL)
          /\ lastOp'.r = "started"
               => run'[lastOp'.p].pc # "idle" /\ run'[lastOp'.p].now0 = now
          /\ lastOp'.r # "started"
               => /\ lastOp'.r = "noop"
                  /\ UNCHANGED <<articles, keywords, lastFetchTime, now, run>>]_vars

C9_Witness ==
  /\ lastOp.op = "fetchLatestNews"
  /\ lastOp.r = "noop"
  /\ now - lastFetchTime = FETCH_INTERVAL - 1

\* C10: a run in which a stage failed leaves lastFetchTime as it was.
C10_FailedRunKeepsLastFetchTime ==
  [][(lastOp'.op = "runEnd" /\ lastOp'.a.failed)
       => lastFetchTime' = lastFetchTime]_vars

Range(s) == {s[i] : i \in 1..Len(s)}

\* C11: when a run reads the article set for curation, no createArticle of
\* the run is outstanding and every article the run inserted is in the set
\* read (it is a candidate of the curation unless the date filter drops it).
C11_IngestionBeforeCuration ==
  [][lastOp'.op = "getArticles"
       => LET p == lastOp'.p
          IN /\ run[p].batch = <<>>
             /\ run[p].ins \subseteq 1..Len(articles)
             /\ \A i \in run[p].ins :
                  IsRecent(articles[i], now) => i \in Range(run'[p].cand)]_vars

C11_Witness ==
  /\ lastOp.op = "getArticles"
  /\ \E i, j \in run[lastOp.p].ins :
       /\ articles[i].item = 3
       /\ articles[j].item = 2
       /\ {i, j} \subseteq Range(run[lastOp.p].cand)

Chars(t) == {t[i] : i \in 1..Len(t)}

Occurs(find, text, caseSensitive) ==
  \E i \in 1..Len(text) + 1 : MatchesAt(text, i, find, caseSensitive)

\* the patterns keep apart: a replaceText is not empty, and no character of
\* a replaceText is a character of a findText, in either case
KeepApart(patterns) ==
  \A i, j \in 1..Len(patterns) :
    /\ patterns[i].replaceText # <<>>
    /\ Chars(ToLower(patterns[i].replaceText))
         \cap Chars(ToLower(patterns[j].findText)) = {}
    /\ i # j => /\ ~Occurs(patterns[i].findText, patterns[j].findText, FALSE)
                /\ Chars(ToLower(patterns[i].findText))
                     \cap Chars(ToLower(patterns[j].findText)) = {}

\* C18: for patterns whose findTexts do not overlap and whose replaceTexts
\* hold no findText, applying the list to the result of applying it gives
\* that result again.
C18_ReplacementIdempotent ==
  [][(lastOp'.op = "applyReplacementPatterns" /\ KeepApart(req.patterns))
       => applyReplacementPatterns(lastOp'.r, req.patterns) = lastOp'.r]_vars

\* every occurrence of find, from position i on, replaced by the characters
\* of repl
RECURSIVE Substitute(_, _, _, _, _)
Substitute(text, i, find, repl, caseSensitive) ==
  IF i > Len(text) THEN <<>>
  ELSE IF MatchesAt(text, i, find, caseSensitive)
  THEN repl \o Substitute(text, i + Len(find), find, repl, caseSensitive)
  ELSE <<text[i]>> \o Substitute(text, i + 1, find, repl, caseSensitive)

RECURSIVE SubstituteAll(_, _)
SubstituteAll(text, patterns) ==
  IF patterns = <<>> THEN text
  ELSE SubstituteAll(
         Substitute(text, 1, Head(patterns).findText,
                    Head(patterns).replaceText, Head(patterns).caseSensitive),
         Tail(patterns))

\* C19: the result is the text in which, pattern after pattern, every
\* occurrence of findText is replaced by the characters of replaceText.
C19_LiteralSubstitution ==
  [][lastOp'.op = "applyReplacementPatterns"
       => lastOp'.r = SubstituteAll(req.text, req.patterns)]_vars

\* the calls of deduplicateArticles with two articles a then b
IsPair(call) == call.op = "deduplicateArticles" /\ Len(call.articles) = 2

Swapped(list) == <<list[2], list[1]>>

SameTitle(a, b) == NormalTitle(a) = NormalTitle(b)

HigherQuality(a, b, t) ==
  IF calculateArticleQuality(a, t) > calculateArticleQuality(b, t) THEN a ELSE b

Shared(a, b) == Cardinality(LongWords(a.summary) \cap LongWords(b.summary))

Either(a, b) == Cardinality(LongWords(a.summary) \cup LongWords(b.summary))

NoWords(a, b) == LongWords(a.summary) = {} \/ LongWords(b.summary) = {}

\* C17: of two articles with distinct URLs and titles, both are kept when the
\* Jaccard similarity of their summaries is exactly 0.8 or a word set is
\* empty, and only one (the later if of higher quality, else the earlier)
\* when the similarity is greater than 0.8.
C17_SimilarityIsStrict ==
  [][(lastOp'.op = "deduplicateArticles" /\ IsPair(req))
       => LET a == req.articles[1]
              b == req.articles[2]
          IN (~SameTitle(a, b) /\ LowerUrl(a) # LowerUrl(b))
               => /\ (~NoWords(a, b) /\ 5 * Shared(a, b) = 4 * Either(a, b))
                       => lastOp'.r = <<a, b>>
                  /\ (~NoWords(a, b) /\ 5 * Shared(a, b) > 4 * Either(a, b))
                       => lastOp'.r = <<HigherQuality(b, a, now)>>
                  /\ NoWords(a, b) => lastOp'.r = <<a, b>>]_vars

\* two articles at similarity exactly 0.8 were both kept
C17_Witness ==
  /\ lastOp.op = "deduplicateArticles"
  /\ IsPair(lastOp.a)
  /\ ~SameTitle(lastOp.a.articles[1], lastOp.a.articles[2])
  /\ LowerUrl(lastOp.a.articles[1]) # LowerUrl(lastOp.a.articles[2])
  /\ Shared(lastOp.a.articles[1], lastOp.a.articles[2]) = 4
  /\ Either(lastOp.a.articles[1], lastOp.a.articles[2]) = 5
  /\ lastOp.r = lastOp.a.articles

\* the lists that reach step 5 in the two builds of applyFilters
BeforeSentiment(call, t) ==
  LET config == fetchUserFilterConfig(call.userId, call.store)
  IN {Transformed(deduplicateArticles(call.articles, t), config, t),
      Transformed(call.articles, config, t)}

\* the threshold the caller stored, or 0.7 without a user or a stored row
StoredThreshold(call) ==
  IF call.userId # "none" /\ call.store.preferences # <<>>
  THEN call.store.preferences[1].sentimentThreshold
  ELSE DefaultThreshold

Ids(list) == {list[i].id : i \in 1..Len(list)}

\* C12: applyFilters returns, of the articles that survive the stages before
\* the sentiment stage, exactly those whose sentiment is at least the
\* caller's stored threshold (0 included), and 0.7 stands in only when there
\* is no user or no stored preference.
C12_StoredThresholdApplies ==
  [][lastOp'.op = "applyFilters"
       => \E earlier \in BeforeSentiment(req, now) :
            Ids(lastOp'.r) = {earlier[i].id : i \in
                                {k \in 1..Len(earlier) :
                                   earlier[k].sentiment >= StoredThreshold(req)}}]_vars

\* text holds the term, in any case
Holds(text, term) == Occurs(term, text, FALSE)

MatchesBlocked(article, term) ==
  \/ Holds(article.title, term)
  \/ Holds(article.summary, term)
  \/ \E kw \in article.keywords : Holds(kw, term)

\* C13 (as stated): no article applyFilters returns holds a blocked term in
\* its returned title, its returned summary or one of its keywords.
C13_NoBlockedReturned ==
  [][lastOp'.op = "applyFilters"
       => \A i \in 1..Len(lastOp'.r), k \in 1..Len(req.store.blocked) :
            ~MatchesBlocked(lastOp'.r[i], req.store.blocked[k])]_vars

\* C13 (amended): no article applyFilters returns holds a blocked term in
\* the title or summary it was given with, before the replacement patterns
\* were applied, or in one of its keywords.
C13_NoBlockedGiven ==
  [][lastOp'.op = "applyFilters"
       => \A i \in 1..Len(lastOp'.r), k \in 1..Len(req.store.blocked) :
            ~MatchesBlocked(req.articles[lastOp'.r[i].id], req.store.blocked[k])]_vars

\* a fresh article of sufficient sentiment whose keywords alone hold the
\* blocked term was left out, and another article was returned
C13_Witness ==
  /\ lastOp.op = "applyFilters"
  /\ lastOp.r # <<>>
  /\ \E i \in 1..Len(lastOp.a.articles), k \in 1..Len(lastOp.a.store.blocked) :
       LET article == lastOp.a.articles[i]
           term == lastOp.a.store.blocked[k]
       IN /\ \E kw \in article.keywords : Holds(kw, term)
          /\ ~Holds(article.title, term)
          /\ ~Holds(article.summary, term)
          /\ article.sentiment >= DefaultThreshold
          /\ article.publishedAt >= now - FreshWindow
          /\ article.id \notin Ids(lastOp.r)

\* C14: no two articles applyFilters returns have URLs of one normalized key.
C14_NoDuplicateKeys ==
  [][lastOp'.op = "applyFilters"
       => \A i, j \in 1..Len(lastOp'.r) :
            i # j => normalizeUrl(lastOp'.r[i].url) # normalizeUrl(lastOp'.r[j].url)]_vars

\* C20: the list applyFilters returns descends by priorityScore and, among
\* equal scores, by sentiment.
C20_SortedByScoreThenSentiment ==
  [][lastOp'.op = "applyFilters"
       => \A i \in 1..(Len(lastOp'.r) - 1) :
            \/ lastOp'.r[i].priorityScore > lastOp'.r[i + 1].priorityScore
            \/ /\ lastOp'.r[i].priorityScore = lastOp'.r[i + 1].priorityScore
               /\ lastOp'.r[i].sentiment >= lastOp'.r[i + 1].sentiment]_vars

\* the sort moved the later of two articles, of higher score, ahead
C20_Witness ==
  /\ lastOp.op = "applyFilters"
  /\ Len(lastOp.r) = 2
  /\ lastOp.r[1].id > lastOp.r[2].id
  /\ lastOp.r[1].priorityScore > lastOp.r[2].priorityScore

\* a blocked term of the keywords table occurs in a keyword of the row and
\* not in its title or summary
BlockedByKeywordsOnly(row, kws) ==
  /\ \E term \in blockedTerms(kws) : Includes(row.keywords, term)
  /\ PassesBlocked(row, kws)

\* C15: no curation run selects for isCurated or isTopFive an article in
\* whose keywords, and not in whose title or summary, a blocked keyword
\* occurs.
C15_KeywordsArrayBlocks ==
  [][lastOp'.op = "getKeywords"
       => LET p == lastOp'.p
          IN \A i \in CuratedIds(run'[p].sorted) \cup TopFiveIds(run'[p].sorted) :
               ~BlockedByKeywordsOnly(articles[i], keywords)]_vars

\* C21: a call of applyFilters without userId returns the articles that reach
\* the sentiment stage with sentiment of at least 0.7, none of them matching
\* a blocked keyword, each with the title and summary it was given with and
\* a priorityScore of 0.
C21_UnauthenticatedDefaults ==
  [][(lastOp'.op = "applyFilters" /\ req.userId = "none")
       => /\ \E earlier \in BeforeSentiment(req, now) :
               Ids(lastOp'.r) = {earlier[i].id : i \in
                                   {k \in 1..Len(earlier) :
                                      earlier[k].sentiment >= DefaultThreshold}}
          /\ \A i \in 1..Len(lastOp'.r) :
               LET given == req.articles[lastOp'.r[i].id]
               IN /\ lastOp'.r[i].title = given.title
                  /\ lastOp'.r[i].summary = given.summary
                  /\ \A k \in 1..Len(req.store.blocked) :
                       ~MatchesBlocked(given, req.store.blocked[k])
                  /\ lastOp'.r[i].priorityScore = 0]_vars

\* C26: no step decreases lastFetchTime.
C26_LastFetchTimeMonotone == [][lastFetchTime' >= lastFetchTime]_vars

\* C28: the key createArticle computes for a URL is a fixed point of
\* normalizeUrl: normalizing the key again gives the key.
C28_NormalizeIdempotent ==
  [][lastOp'.op = "createArticle"
       => normalizeUrl(normalizeUrl(lastOp'.a.url)) = normalizeUrl(lastOp'.a.url)]_vars

\* the fields of a row that curation does not write
Content(row) == [f \in (DOMAIN row) \ {"isCurated", "isTopFive"} |-> row[f]]

\* C24: a step of a fetchLatestNews run deletes no row of the articles table
\* and changes no field of a persisted row other than isCurated and
\* isTopFive, and a return of applyFilters leaves the table as it is.
C24_InsertOnlyFlagOnly ==
  [][/\ lastOp'.p \in Runs
          => /\ Len(articles') >= Len(articles)
             /\ \A i \in 1..Len(articles) : Content(articles'[i]) = Content(articles[i])
     /\ lastOp'.op = "applyFilters" => articles' = articles]_vars

\* applyFilters has returned, and a run has since inserted two rows and set
\* a flag on one of them
C24_Witness ==
  /\ req = NoReq
  /\ Len(articles) >= 2
  /\ \E i \in 1..Len(articles) : articles[i].isCurated \/ articles[i].isTopFive
  /\ lastOp.p \in Runs

\* C27: no two articles deduplicateArticles returns share a lowercased URL
\* or a lowercased title or have summaries of similarity greater than 0.8,
\* and deduplicateArticles returns its own output unchanged.
C27_OutputIsDuplicateFree ==
  [][lastOp'.op = "deduplicateArticles"
       => /\ \A i, j \in 1..Len(lastOp'.r) :
               i # j => LET a == lastOp'.r[i]
                            b == lastOp'.r[j]
                        IN /\ LowerUrl(a) # LowerUrl(b)
                           /\ ~SameTitle(a, b)
                           /\ NoWords(a, b) \/ 5 * Shared(a, b) <= 4 * Either(a, b)
          /\ deduplicateArticles(lastOp'.r, now) = lastOp'.r]_vars

\* C22: processNewsAPIArticles produces every complete article of the batch,
\* with sentiment 0.7 when the sentiment request failed and with the
\* keywords of extractBasicKeywords when the keywords request failed.
C22_FallbackOnAiFailure ==
  [][lastOp'.op = "processNewsAPIArticles"
       => LET kept == SelectSeq(req.batch, LAMBDA i : Items[i].complete)
          IN /\ Len(lastOp'.r) = Len(kept)
             /\ \A j \in 1..Len(kept) :
                  /\ lastOp'.r[j].item = kept[j]
                  /\ ~req.ai.sentiment => lastOp'.r[j].sentiment = DefaultSentiment
                  /\ ~req.ai.keywords
                       => lastOp'.r[j].keywords
                            = extractBasicKeywords(Items[kept[j]].text)]_vars

\* C25: a view request for a stored article, served with no other request
\* in between, adds exactly one to the views of that article (so that n
\* requests in a row leave views = n on an article created with views = 0).
C25_ViewIncrementsByOne ==
  [][lastOp'.op = "viewArticle" /\ lastOp'.r.kind = "returned"
     => articles'[lastOp'.a.id].views = articles[lastOp'.a.id].views + 1]_vars

\* the users with a row of user_article_likes for an article
Likers(table, id) == {table[i].userId : i \in LikesOf(table, id)}

Quiet(calls) == \A c \in Callers : calls[c].pc = "idle"

\* C29: whenever no likeArticle or unlikeArticle call is in flight, the likes
\* of an article are the number of distinct users with a like of it, and not
\* negative; and a likeArticle whose select finds the like of that user
\* returns success = false and leaves the articles as they are.
C29_LikesCountLikers ==
  [][/\ Quiet(inflight')
        => \A id \in 1..Len(articles') :
             /\ articles'[id].likes = Cardinality(Likers(userArticleLikes', id))
             /\ articles'[id].likes >= 0
     /\ lastOp'.op = "likeArticle" /\ lastOp'.r.kind = "returned"
          /\ lastOp'.a.pc = "selectArticle"
        => ~lastOp'.r.success /\ articles' = articles]_vars

\* the id of a call names no stored article, or no stored podcast
UnknownId(a) ==
  CASE a.op \in {"viewArticle", "likeArticle", "unlikeArticle", "saveArticle"}
         -> ~Known(articles, a.id)
    [] a.op \in {"updatePodcast", "regeneratePodcast"} -> ~Known(podcasts, a.id)
    [] OTHER -> FALSE

\* returned undefined, or a result with success = false
Miss(r) == r.kind = "undefined" \/ (r.kind = "returned" /\ ~r.success)

\* C23: no step of updateArticle, likeArticle, unlikeArticle, saveArticle,
\* updatePodcast or regeneratePodcast on an id that is not stored changes a
\* table, and the call ends with undefined or an unsuccessful result, never
\* with an exception or a success.
C23_UnknownIdIsAMiss ==
  [][UnknownId(lastOp'.a)
       => /\ <<articles, userArticleLikes, userSavedArticles, podcasts>>'
               = <<articles, userArticleLikes, userSavedArticles, podcasts>>
          /\ lastOp'.r.kind # "pending" => Miss(lastOp'.r)]_vars

\* script or audio generation failed in a call of regeneratePodcast
GenerationFailed(a) ==
  a.script \in {"rejected", ScriptFailed} \/ a.audio = "simulated"

\* C30: regeneratePodcast of a stored podcast sets isProcessing before it
\* generates; when the call returns or throws, isProcessing of the podcast
\* is false; and when the script or the audio generation failed, the call
\* leaves transcript, audioUrl and duration as they were.
C30_ProcessingResetOnEveryExit ==
  [][lastOp'.op = "regeneratePodcast" /\ Known(podcasts, lastOp'.a.id)
       => LET id == lastOp'.a.id
          IN /\ lastOp'.a.pc = "generateScript" => podcasts'[id].isProcessing
             /\ lastOp'.r.kind # "pending" => ~podcasts'[id].isProcessing
             /\ GenerationFailed(lastOp'.a)
                  => /\ podcasts'[id].transcript = podcasts[id].transcript
                     /\ podcasts'[id].audioUrl = podcasts[id].audioUrl
                     /\ podcasts'[id].duration = podcasts[id].duration]_vars

====
